---- MODULE Spec2Model ----
(***************************************************************************)
(* homebridge-udpfan: a HomeKit fan accessory that drives a fan over UDP.  *)
(*                                                                         *)
(* The repository holds two versions of the accessory:                     *)
(*   src/index.js          the basic accessory (no retry, no cache)        *)
(*   src/unnamed/part_000  the accessory with retries, confirmation and a  *)
(*                         state cache                                     *)
(* Both are modelled; the variable impl says which file is loaded.         *)
(*                                                                         *)
(* Node runs one callback at a time.  Every action below is one callback   *)
(* of the event loop (a host call, a socket.send callback, a timer, a      *)
(* 'message' event) or one promise continuation.  Continuations are        *)
(* microtasks: while the queue micro is not empty no other callback runs;  *)
(* only the host's code that is running may make one more call.            *)
(*                                                                         *)
(* Percentages are counted in hundredths (33.33 is 3333), the clock in     *)
(* milliseconds.  Timers are not tied to the clock: an armed timer may     *)
(* fire at any later callback, since every duration is configurable.       *)
(***************************************************************************)
EXTENDS Integers, Sequences, FiniteSets

\* ---------------------------------------------------------------- bounds
\* host calls made during one run
MaxCalls == 2
\* config.maxRetries (its default is 3)
MaxRetries == 1
\* how many times the clock advances
MaxTicks == 1
\* how many transport faults (failed sends, missed deadlines) one run holds
MaxFaults == 2

\* ------------------------------------------------------------- constants
\* minStep: 33.33, speed * 33.33, value / 33.33, in hundredths
Step == 3333
\* config.cacheTimeout || 2000, in ms
CacheTimeout == 2000
\* one advance of the clock, in ms: a cache entry written before it is stale
TickMs == CacheTimeout
\* Date.now() at construction: far beyond cacheTimeout, lastUpdate being 0
StartTime == 5 * CacheTimeout

\* ------------------------------------------------------------ JS values
Null == [k |-> "null"]
Undefined == [k |-> "undefined"]
NaN == [k |-> "NaN"]
Num(n) == [k |-> "num", n |-> n]
IsNum(v) == v.k = "num"

\* ------------------------------------------------------------- payloads
\* A datagram is a sequence of one-character strings.
Digits == <<"0", "1", "2", "3", "4", "5", "6", "7", "8", "9">>
IsDigit(ch) == \E i \in 1..10 : Digits[i] = ch
DigitVal(ch) == (CHOOSE i \in 1..10 : Digits[i] = ch) - 1

\* String(n) for an integer n, as in the template literals `s,${speed}`
RECURSIVE NatToStr(_)
NatToStr(n) == IF n < 10 THEN <<Digits[n + 1]>>
               ELSE NatToStr(n \div 10) \o <<Digits[(n % 10) + 1]>>
ToStr(n) == IF n < 0 THEN <<"-">> \o NatToStr(0 - n) ELSE NatToStr(n)

\* msg.toString().split(',')[0]
RECURSIVE FirstField(_)
FirstField(s) == IF s = <<>> \/ Head(s) = "," THEN <<>>
                 ELSE <<Head(s)>> \o FirstField(Tail(s))

\* A character outside ASCII is written as its code point, "U+00A0", and is
\* one element of the sequence that stands for a string.
\* U+000B, the vertical tab
VT == ""
\* the space separators (category Zs) other than the space itself
SpaceSeparators ==
    { "U+00A0", "U+1680", "U+2000", "U+2001", "U+2002", "U+2003", "U+2004",
      "U+2005", "U+2006", "U+2007", "U+2008", "U+2009", "U+200A", "U+202F",
      "U+205F", "U+3000" }
\* the white space parseInt skips (StrWhiteSpaceChar): tab, vertical tab,
\* form feed, space, the other space separators and the byte order mark, and
\* the line terminators line feed, carriage return, U+2028 and U+2029
WhiteSpace ==
    { "\t", VT, "\f", " ", "U+FEFF" } \cup SpaceSeparators
        \cup { "\n", "\r", "U+2028", "U+2029" }

RECURSIVE SkipSpace(_)
SkipSpace(s) == IF s # <<>> /\ Head(s) \in WhiteSpace THEN SkipSpace(Tail(s)) ELSE s

\* hexadecimal digits, read by parseInt after a prefix 0x or 0X
HexLower == <<"0", "1", "2", "3", "4", "5", "6", "7", "8", "9",
              "a", "b", "c", "d", "e", "f">>
HexUpper == <<"0", "1", "2", "3", "4", "5", "6", "7", "8", "9",
              "A", "B", "C", "D", "E", "F">>
IsHexDigit(ch) == \E i \in 1..16 : HexLower[i] = ch \/ HexUpper[i] = ch
HexVal(ch) == (CHOOSE i \in 1..16 : HexLower[i] = ch \/ HexUpper[i] = ch) - 1

\* the longest prefix of hexadecimal digits
RECURSIVE HexPrefix(_)
HexPrefix(s) == IF s # <<>> /\ IsHexDigit(Head(s))
                THEN <<Head(s)>> \o HexPrefix(Tail(s)) ELSE <<>>

RECURSIVE HexDigitsVal(_, _)
HexDigitsVal(s, acc) == IF s = <<>> THEN acc
                        ELSE HexDigitsVal(Tail(s), 16 * acc + HexVal(Head(s)))

\* the longest prefix of digits
RECURSIVE DigitPrefix(_)
DigitPrefix(s) == IF s # <<>> /\ IsDigit(Head(s))
                  THEN <<Head(s)>> \o DigitPrefix(Tail(s)) ELSE <<>>

RECURSIVE DigitsVal(_, _)
DigitsVal(s, acc) == IF s = <<>> THEN acc
                     ELSE DigitsVal(Tail(s), 10 * acc + DigitVal(Head(s)))

\* parseInt(string), no radix given: leading white space is skipped, a sign
\* is read, then a prefix 0x or 0X selects radix 16, else the radix is 10;
\* the longest run of digits of the radix is read and what follows is
\* ignored; no digit gives NaN
parseInt(s) ==
    LET t == SkipSpace(s)
        neg == t # <<>> /\ Head(t) = "-"
        u == IF t # <<>> /\ Head(t) \in {"-", "+"} THEN Tail(t) ELSE t
        hex == Len(u) >= 2 /\ u[1] = "0" /\ u[2] \in {"x", "X"}
        ds == IF hex THEN HexPrefix(SubSeq(u, 3, Len(u))) ELSE DigitPrefix(u)
        n == IF hex THEN HexDigitsVal(ds, 0) ELSE DigitsVal(ds, 0)
    IN  IF ds = <<>> THEN NaN
        ELSE Num(IF neg THEN 0 - n ELSE n)

\* The field is an integer literal: an optional minus sign and digits only.
IsInteger(s) ==
    LET u == IF s # <<>> /\ Head(s) = "-" THEN Tail(s) ELSE s
    IN  u # <<>> /\ \A i \in 1..Len(u) : IsDigit(u[i])

\* the integer a field denotes, NaN when it is not an integer literal
StrictInt(s) == IF IsInteger(s) THEN parseInt(s) ELSE NaN

\* Math.round(value / 33.33) for value >= 0 (value in hundredths):
\* Math.round rounds half up
RoundSpeed(value) == (2 * value + Step) \div (2 * Step)

\* a conversion that forgets the step
Percentage_unscaled(speed) == speed

\* speed * 33.33
Percentage(speed) == speed * Step

\* ---------------------------------------------------------------- state
VARIABLES
    impl,         \* which file is loaded: "index" (src/index.js) or "retry" (part_000)
    env,          \* "ideal": no fault is injected; "faulty": any transport event
    now,          \* Date.now()
    cachedSpeed,  \* this.cachedSpeed
    cachedActive, \* this.cachedActive
    lastUpdate,   \* this.lastUpdate
    calls,        \* the host's calls, in the order they were made
    micro,        \* the microtask queue: calls whose awaited promise has settled
    sendq,        \* socket.send calls whose callback has not run yet, oldest first
    timeouts,     \* the armed response timers, one per attempt
    retries,      \* the armed retryDelay timers, each named by the attempt it starts
    settles,      \* the armed 100 ms timers of sendCommandWithConfirmation
    listeners,    \* socket's 'message' listeners, in registration order
    devSpeed,     \* the fan's speed (tracked when env = "ideal")
    inflight,     \* status replies on their way back (env = "ideal")
    faults,       \* the failed sends and missed deadlines so far
    hostTurn      \* the host's code runs and microtasks wait: it has made a
                  \* call or is in a callback and has not returned yet

vars == <<impl, env, now, cachedSpeed, cachedActive, lastUpdate, calls, micro,
          sendq, timeouts, retries, settles, listeners, devSpeed, inflight,
          faults, hostTurn>>

cacheVars == <<cachedSpeed, cachedActive, lastUpdate>>
socketVars == <<sendq, timeouts, listeners, faults>>
deviceVars == <<devSpeed, inflight>>

Remove(seq, id) == SelectSeq(seq, LAMBDA x : x # id)
Range(seq) == {seq[i] : i \in 1..Len(seq)}

\* A call makes at most three dispatches (calls of sendCommand from the facade):
\* the command, the status query, and the corrective resend.
Roles == {"cmd", "query", "fix"}

\* One attempt of a dispatch is one invocation of sendCommand.  It is named by
\* the call, the role, and the path of retries that led to it: "s" for a retry
\* scheduled by the send callback, "t" for one scheduled by the response timer.
\* retryCount is the length of the path.
Attempt(c, r, p) == [c |-> c, r |-> r, p |-> p]
retryCount(id) == Len(id.p)

\* A promise returned by sendCommand to the facade, with what the model
\* remembers of the dispatch: sends counts the socket.send calls, fails the
\* send callbacks that reported an error, heard whether a handleMessage ran,
\* field what the first field of the datagram that settled the promise denotes.
NoDispatch == [st |-> "none", val |-> Undefined, e |-> "",
               sends |-> 0, fails |-> 0, heard |-> FALSE, field |-> Undefined]

\* A call of the host: the operation and its argument, where its code stands
\* (pc), how often its callback ran and with what (cb, err, val), and the
\* promises of its dispatches (d).  Remembered for the properties: ret, what
\* sendCommandWithConfirmation returned; solo, whether every earlier call had
\* completed when this one was made.
NewCall(kind, arg) ==
    [kind |-> kind, arg |-> arg, pc |-> "start",
     cb |-> 0, err |-> "", val |-> Undefined,
     d |-> [r \in Roles |-> NoDispatch],
     ret |-> Undefined,
     solo |-> \A c \in DOMAIN calls : calls[c].pc = "done"]

\* Bookkeeping only: when the host makes a new call, the model forgets what it
\* remembers of every earlier call that has completed and has no send
\* callback, timer or listener left: its dispatch records and its result, and,
\* unless it is the latest call, its kind, argument and error too.  Nothing of
\* the program reads them.
live(c) == \E id \in Range(sendq) \cup timeouts \cup retries \cup Range(listeners) :
              id.c = c
Forgotten == [NewCall("", 0) EXCEPT !.pc = "done", !.cb = 1, !.solo = TRUE]
forget(cs) ==
    [c \in DOMAIN cs |->
        IF cs[c].pc = "done" /\ ~live(c)
        THEN IF c < Len(cs) /\ cs[c].cb = 1 THEN Forgotten
             ELSE [cs[c] EXCEPT !.d = [r \in Roles |-> NoDispatch],
                                !.val = Undefined, !.ret = Undefined]
        ELSE cs[c]]

\* The host may call while an earlier call is in progress: in a turn of its
\* own, when no microtask waits, or from its code that is running, after a
\* call it has just made or inside a callback, before the waiting microtasks
\* run.  To keep the runs with transport faults finite and small, overlapping
\* calls are explored in the runs without faults only.
MayCall ==
    /\ micro = <<>> \/ hostTurn
    /\ Len(calls) < MaxCalls
    /\ env = "faulty" => \A c \in DOMAIN calls : calls[c].pc = "done"

\* the values the host passes to setSpeed (hundredths of a percent): every
\* multiple of the step and one value between two steps; fewer in the runs
\* with transport faults
Percentages == IF env = "ideal" THEN {0, 3333, 5000, 6666, 9999} ELSE {5000}

\* the datagrams a faulty link or device may deliver
Replies == { <<"0">>, <<"2", ",", "x">>, <<"x">>, <<>>, <<"-", "1">>,
             <<"2", "x">>, <<"\t", "2">>, <<"0", "x">> }

Init ==
    /\ impl \in {"index", "retry"}
    /\ env \in {"ideal", "faulty"}
    /\ now = StartTime
    /\ cachedSpeed = Null
    /\ cachedActive = Null
    /\ lastUpdate = 0
    /\ calls = <<>>
    /\ micro = <<>>
    /\ sendq = <<>>
    /\ timeouts = {}
    /\ retries = {}
    /\ settles = {}
    /\ listeners = <<>>
    /\ devSpeed \in (IF env = "ideal" THEN 0..3 ELSE {0})
    /\ inflight = <<>>
    /\ faults = 0
    /\ hostTurn = FALSE

\* ------------------------------------------------------------- promises
\* resolve / reject of a promise: only the first settles it
resolve(d, v) == IF d.st = "pending" THEN [d EXCEPT !.st = "ok", !.val = v] ELSE d
reject(d, e) == IF d.st = "pending" THEN [d EXCEPT !.st = "err", !.e = e] ELSE d

\* the facade's callback(err, value)
callback(call, e, v) ==
    [call EXCEPT !.cb = @ + 1, !.err = e, !.val = v, !.pc = "done"]

\* ---------------------------------------------------------------- cache
\* an updateCache that forgets the derived flag
updateCache_flagKept(speed) ==
    /\ cachedSpeed' = speed
    /\ cachedActive' = cachedActive
    /\ lastUpdate' = now

\* updateCache(speed), as the three assignments
updateCache(speed) ==
    /\ cachedSpeed' = speed
    /\ cachedActive' = Num(IF speed.n > 0 THEN 1 ELSE 0)
    /\ lastUpdate' = now

\* an isCacheValid with the comparison turned round
isCacheValid_inverted == (now - lastUpdate) > CacheTimeout

isCacheValid == (now - lastUpdate) < CacheTimeout

\* a test for a cache entry that never finds one
hasCache_never(cached) == FALSE

\* this.cachedSpeed !== null, this.cachedActive !== null
hasCache(cached) == cached # Null

\* ---------------------------------------------------------- sendCommand
\* the wire text of a dispatch
Message(call, r) ==
    IF r = "query" THEN <<"s">>
    ELSE IF call.kind = "setSpeed"
         THEN <<"s", ",">> \o ToStr(RoundSpeed(call.arg))
         ELSE <<"f", ",">> \o ToStr(call.arg)

\* expectResponse of a dispatch: true for the status query only
expectResponse(r) == r = "query"

\* socket.send(buffer, 0, buffer.length, this.port, this.ip, callback).  The
\* callback of an accepted send does nothing (err is null).  When no fault is
\* injected every send is queued and reaches the device when its callback
\* runs.  With faults, only a send that is going to fail is queued for its
\* callback, and it takes one fault of the budget.
socketSend(id) ==
    \/ /\ env = "ideal"
       /\ sendq' = Append(sendq, id)
       /\ faults' = faults
    \/ /\ env = "faulty"
       /\ sendq' = sendq
       /\ faults' = faults
    \/ /\ env = "faulty" /\ faults < MaxFaults
       /\ sendq' = Append(sendq, id)
       /\ faults' = faults + 1

\* The synchronous part of sendCommand on the socket: socket.send, and for a
\* status query the response timer and the 'message' listener.
sendCommand(id) ==
    /\ socketSend(id)
    /\ IF expectResponse(id.r)
       THEN /\ timeouts' = timeouts \cup {id}
            /\ listeners' = Append(listeners, id)
       ELSE UNCHANGED <<timeouts, listeners>>

\* The synchronous part of sendCommand on the dispatch: one more send, and
\* resolve() at once when no response is expected.
dispatched(d, r) ==
    LET o == [d EXCEPT !.st = IF @ = "none" THEN "pending" ELSE @,
                       !.sends = @ + 1]
    IN  IF expectResponse(r) THEN o ELSE resolve(o, Undefined)

\* ------------------------------------------- part_000: the four operations
\* What the model leaves unchanged in a host call or a continuation.
Frame == UNCHANGED <<impl, env, now, retries, deviceVars>>

\* getSpeed up to its first await
getSpeed ==
    /\ impl = "retry" /\ MayCall
    /\ LET c == Len(calls) + 1
           call == NewCall("getSpeed", 0)
       IN  IF isCacheValid /\ hasCache(cachedSpeed)
           THEN /\ calls' = Append(forget(calls),
                        callback(call, "", Num(Percentage(cachedSpeed.n))))
                /\ UNCHANGED socketVars
           ELSE /\ calls' = Append(forget(calls),
                        [call EXCEPT !.pc = "await_query",
                                     !.d["query"] = dispatched(@, "query")])
                /\ sendCommand(Attempt(c, "query", <<>>))
    /\ UNCHANGED <<micro, settles, cacheVars>>
    /\ Frame

\* getSpeed after `await this.sendCommand('s', true)`: the rest of the try
\* block, or the catch block
getSpeedResumed(c) ==
    LET d == calls[c].d["query"]
    IN  /\ calls[c].kind = "getSpeed" /\ calls[c].pc = "await_query"
        /\ IF d.st = "ok"
           THEN /\ updateCache(d.val)
                /\ calls' = [calls EXCEPT
                       ![c] = callback(@, "", Num(Percentage(d.val.n)))]
           ELSE /\ UNCHANGED cacheVars
                /\ calls' = [calls EXCEPT ![c] =
                       IF hasCache(cachedSpeed)
                       THEN callback(@, "", Num(Percentage(cachedSpeed.n)))
                       ELSE callback(@, d.e, Undefined)]
        /\ micro' = Tail(micro)
        /\ UNCHANGED <<socketVars, settles>>

\* getActive up to its first await
getActive ==
    /\ impl = "retry" /\ MayCall
    /\ LET c == Len(calls) + 1
           call == NewCall("getActive", 0)
       IN  IF isCacheValid /\ hasCache(cachedActive)
           THEN /\ calls' = Append(forget(calls), callback(call, "", cachedActive))
                /\ UNCHANGED socketVars
           ELSE /\ calls' = Append(forget(calls),
                        [call EXCEPT !.pc = "await_query",
                                     !.d["query"] = dispatched(@, "query")])
                /\ sendCommand(Attempt(c, "query", <<>>))
    /\ UNCHANGED <<micro, settles, cacheVars>>
    /\ Frame

\* getActive after its await
getActiveResumed(c) ==
    LET d == calls[c].d["query"]
    IN  /\ calls[c].kind = "getActive" /\ calls[c].pc = "await_query"
        /\ IF d.st = "ok"
           THEN /\ updateCache(d.val)
                /\ calls' = [calls EXCEPT
                       ![c] = callback(@, "", Num(IF d.val.n > 0 THEN 1 ELSE 0))]
           ELSE /\ UNCHANGED cacheVars
                /\ calls' = [calls EXCEPT ![c] =
                       IF hasCache(cachedActive)
                       THEN callback(@, "", cachedActive)
                       ELSE callback(@, d.e, Undefined)]
        /\ micro' = Tail(micro)
        /\ UNCHANGED <<socketVars, settles>>

\* setSpeed up to the first await of sendCommandWithConfirmation:
\* sendCommand(message, false), which resolves at once
setSpeed(value) ==
    /\ impl = "retry" /\ MayCall
    /\ LET c == Len(calls) + 1
           call == NewCall("setSpeed", value)
       IN  /\ calls' = Append(forget(calls),
                   [call EXCEPT !.pc = "await_cmd",
                                !.d["cmd"] = dispatched(@, "cmd")])
           /\ sendCommand(Attempt(c, "cmd", <<>>))
           /\ micro' = Append(micro, c)
    /\ UNCHANGED <<settles, cacheVars>>
    /\ Frame

\* the comparison of sendCommandWithConfirmation with === for !==
mismatch_inverted(actualValue, expectedValue) == actualValue = expectedValue

\* actualValue !== expectedValue
mismatch(actualValue, expectedValue) == actualValue # expectedValue

\* sendCommandWithConfirmation after each of its awaits. Its return and its
\* throw settle the promise setSpeed awaits: setSpeed goes on in a microtask
\* queued behind those already waiting
sendCommandWithConfirmation(c) ==
    LET speed == Num(RoundSpeed(calls[c].arg))
        q == calls[c].d["query"]
    IN  /\ calls[c].kind = "setSpeed"
        /\ \/ \* after `await this.sendCommand(message, false)`:
              \* expectedValue !== null, so the 100 ms delay starts
              /\ calls[c].pc = "await_cmd"
              /\ calls' = [calls EXCEPT ![c].pc = "settle"]
              /\ settles' = settles \cup {c}
              /\ micro' = Tail(micro)
              /\ UNCHANGED <<socketVars, cacheVars>>
           \/ \* the status query threw: the catch block throws err again
              /\ calls[c].pc = "await_query" /\ q.st = "err"
              /\ calls' = [calls EXCEPT ![c].pc = "thrown"]
              /\ micro' = Append(Tail(micro), c)
              /\ UNCHANGED <<socketVars, settles, cacheVars>>
           \/ \* actualValue !== expectedValue: send the command once more
              /\ calls[c].pc = "await_query" /\ q.st = "ok" /\ mismatch(q.val, speed)
              /\ calls' = [calls EXCEPT ![c].pc = "await_fix",
                                        ![c].d["fix"] = dispatched(@, "fix")]
              /\ sendCommand(Attempt(c, "fix", <<>>))
              /\ micro' = Append(Tail(micro), c)
              /\ UNCHANGED <<settles, cacheVars>>
           \/ \* return actualValue
              /\ \/ calls[c].pc = "await_query" /\ q.st = "ok" /\ ~mismatch(q.val, speed)
                 \/ calls[c].pc = "await_fix"
              /\ calls' = [calls EXCEPT ![c].pc = "returned", ![c].ret = q.val]
              /\ micro' = Append(Tail(micro), c)
              /\ UNCHANGED <<socketVars, settles, cacheVars>>

\* setSpeed after `await this.sendCommandWithConfirmation(...)`
setSpeedResumed(c) ==
    LET speed == Num(RoundSpeed(calls[c].arg))
        q == calls[c].d["query"]
    IN  /\ calls[c].kind = "setSpeed"
        /\ \/ \* it returned: updateCache(speed), callback(null)
              /\ calls[c].pc = "returned"
              /\ updateCache(speed)
              /\ calls' = [calls EXCEPT ![c] = callback(@, "", Undefined)]
           \/ \* it threw: the catch block, callback(err)
              /\ calls[c].pc = "thrown"
              /\ calls' = [calls EXCEPT ![c] = callback(@, q.e, Undefined)]
              /\ UNCHANGED cacheVars
        /\ micro' = Tail(micro)
        /\ UNCHANGED <<socketVars, settles>>

\* the 100 ms timer of sendCommandWithConfirmation fires: the status query
confirmationQuery(c) ==
    /\ micro = <<>> /\ c \in settles
    /\ settles' = settles \ {c}
    /\ calls' = [calls EXCEPT ![c].pc = "await_query",
                              ![c].d["query"] = dispatched(@, "query")]
    /\ sendCommand(Attempt(c, "query", <<>>))
    /\ UNCHANGED <<micro, cacheVars, hostTurn>>
    /\ Frame

\* setActive up to its first await
setActive(value) ==
    /\ impl = "retry" /\ MayCall
    /\ LET c == Len(calls) + 1
           call == NewCall("setActive", value)
       IN  /\ calls' = Append(forget(calls),
                   [call EXCEPT !.pc = "await_cmd",
                                !.d["cmd"] = dispatched(@, "cmd")])
           /\ sendCommand(Attempt(c, "cmd", <<>>))
           /\ micro' = Append(micro, c)
    /\ UNCHANGED <<settles, cacheVars>>
    /\ Frame

\* a setActive that treats every value as power-off
isOff_always(value) == TRUE

\* value === 0
isOff(value) == value = 0

\* setActive after each of its awaits
setActiveResumed(c) ==
    LET q == calls[c].d["query"]
    IN  /\ calls[c].kind = "setActive"
        /\ \/ \* value === 0
              /\ calls[c].pc = "await_cmd" /\ isOff(calls[c].arg)
              /\ updateCache(Num(0))
              /\ calls' = [calls EXCEPT ![c] = callback(@, "", Undefined)]
              /\ micro' = Tail(micro)
              /\ UNCHANGED <<socketVars, settles>>
           \/ \* else: the status query
              /\ calls[c].pc = "await_cmd" /\ ~isOff(calls[c].arg)
              /\ calls' = [calls EXCEPT ![c].pc = "await_query",
                                        ![c].d["query"] = dispatched(@, "query")]
              /\ sendCommand(Attempt(c, "query", <<>>))
              /\ micro' = Tail(micro)
              /\ UNCHANGED <<settles, cacheVars>>
           \/ /\ calls[c].pc = "await_query" /\ q.st = "ok"
              /\ updateCache(q.val)
              /\ calls' = [calls EXCEPT ![c] = callback(@, "", Undefined)]
              /\ micro' = Tail(micro)
              /\ UNCHANGED <<socketVars, settles>>
           \/ /\ calls[c].pc = "await_query" /\ q.st = "err"
              /\ calls' = [calls EXCEPT ![c] = callback(@, q.e, Undefined)]
              /\ micro' = Tail(micro)
              /\ UNCHANGED <<socketVars, settles, cacheVars>>

\* ------------------------------------ part_000: the callbacks of sendCommand

\* the microtask queue after the dispatch of call c went from `before` to `after`
wake(c, before, after) ==
    IF before.st = "pending" /\ after.st # "pending" THEN Append(micro, c) ELSE micro

\* the dispatch after the callback of socket.send reported an error:
\* retry while retryCount < maxRetries, else reject(err)
sendErrorResult(d, id) ==
    LET f == [d EXCEPT !.fails = @ + 1]
    IN  IF retryCount(id) < MaxRetries THEN f ELSE reject(f, "send error")

\* the callback of socket.send, with err set
sendError(id) ==
    LET d == calls[id.c].d[id.r]
        after == sendErrorResult(d, id)
    IN  /\ calls' = [calls EXCEPT ![id.c].d[id.r] = after]
        /\ retries' = IF retryCount(id) < MaxRetries
                      THEN retries \cup {Attempt(id.c, id.r, Append(id.p, "s"))}
                      ELSE retries
        /\ micro' = wake(id.c, d, after)
        /\ UNCHANGED <<timeouts, listeners>>

\* a timer that retries once more than maxRetries allows
mayRetryOnTimeout_oneMore(id) == retryCount(id) <= MaxRetries

\* retryCount < this.maxRetries, in the timer's callback
mayRetryOnTimeout(id) == retryCount(id) < MaxRetries

\* a timer whose last expiry leaves the promise pending
timeoutResult_silent(d, id) == d

\* the dispatch after the response timer fired: nothing yet when a retry
\* follows, else reject(new Error('Timeout waiting for response after retries'))
timeoutResult(d, id) ==
    IF mayRetryOnTimeout(id) THEN d
    ELSE reject(d, "Timeout waiting for response after retries")

\* the response timer of an attempt fires
responseTimeout(id) ==
    LET d == calls[id.c].d[id.r]
        after == timeoutResult(d, id)
    IN  /\ timeouts' = timeouts \ {id}
        /\ listeners' = Remove(listeners, id)
        /\ calls' = [calls EXCEPT ![id.c].d[id.r] = after]
        /\ retries' = IF mayRetryOnTimeout(id)
                      THEN retries \cup {Attempt(id.c, id.r, Append(id.p, "t"))}
                      ELSE retries
        /\ micro' = wake(id.c, d, after)

\* a retryDelay timer fires:
\* this.sendCommand(message, expectResponse, retryCount + 1)
retry(id) ==
    /\ retries' = retries \ {id}
    /\ calls' = [calls EXCEPT ![id.c].d[id.r] = dispatched(@, id.r)]
    /\ sendCommand(id)
    /\ UNCHANGED micro

\* what the model remembers of a datagram handed to handleMessage
hears(d, msg) ==
    [d EXCEPT !.heard = TRUE,
              !.field = IF d.st = "pending" THEN StrictInt(FirstField(msg)) ELSE @]

\* handleMessage, on the promise of its dispatch
handleMessage(d, msg) ==
    LET value == parseInt(FirstField(msg))
        h == hears(d, msg)
    IN  IF value = NaN THEN reject(h, "Invalid response from device")
        ELSE resolve(h, value)

\* ------------------------------------------------------ index.js
\* sendCommand(message): socket.send; for 's' the timer and socket.once
idx_sendCommand(id, message) ==
    /\ socketSend(id)
    /\ IF message = <<"s">>
       THEN /\ timeouts' = timeouts \cup {id}
            /\ listeners' = Append(listeners, id)
       ELSE UNCHANGED <<timeouts, listeners>>

\* the promise of sendCommand(message): resolve() at once unless message is 's'
idx_dispatched(d, r) ==
    LET o == [d EXCEPT !.st = "pending", !.sends = @ + 1]
    IN  IF r = "query" THEN o ELSE resolve(o, Undefined)

\* the callback of socket.send, with err set: reject(err)
idx_sendError(id) ==
    LET d == calls[id.c].d[id.r]
        after == reject([d EXCEPT !.fails = @ + 1], "send error")
    IN  /\ calls' = [calls EXCEPT ![id.c].d[id.r] = after]
        /\ micro' = wake(id.c, d, after)
        /\ UNCHANGED <<timeouts, listeners, retries>>

\* the 1000 ms timer fires
idx_responseTimeout(id) ==
    LET d == calls[id.c].d[id.r]
        after == reject(d, "Timeout waiting for response")
    IN  /\ timeouts' = timeouts \ {id}
        /\ listeners' = Remove(listeners, id)
        /\ calls' = [calls EXCEPT ![id.c].d[id.r] = after]
        /\ micro' = wake(id.c, d, after)
        /\ UNCHANGED retries

\* handleMessage: resolve(parseInt(response)), NaN included
idx_handleMessage(d, msg) ==
    resolve(hears(d, msg), parseInt(FirstField(msg)))

\* the four operations up to the promise
idx_call(kind, value) ==
    /\ impl = "index" /\ MayCall
    /\ LET c == Len(calls) + 1
           r == IF kind \in {"getSpeed", "getActive"} THEN "query" ELSE "cmd"
           call == NewCall(kind, value)
       IN  /\ calls' = Append(forget(calls),
                   [call EXCEPT !.pc = "await_" \o r,
                                !.d[r] = idx_dispatched(@, r)])
           /\ idx_sendCommand(Attempt(c, r, <<>>), Message(call, r))
           /\ micro' = IF r = "cmd" THEN Append(micro, c) ELSE micro
    /\ UNCHANGED <<settles, cacheVars>>
    /\ Frame

idx_getSpeed == idx_call("getSpeed", 0)
idx_getActive == idx_call("getActive", 0)
idx_setSpeed(value) == idx_call("setSpeed", value)
idx_setActive(value) == idx_call("setActive", value)

\* the .then and .catch callbacks of the four operations
idx_then(c) ==
    LET call == calls[c]
        d == IF call.pc = "await_query" THEN call.d["query"] ELSE call.d["cmd"]
        speed == d.val
    IN  /\ call.pc \in {"await_query", "await_cmd"}
        /\ calls' = [calls EXCEPT ![c] =
               IF d.st = "err" THEN callback(@, d.e, Undefined)
               ELSE IF call.kind = "getSpeed"
                    THEN callback(@, "", IF IsNum(speed)
                                         THEN Num(Percentage(speed.n)) ELSE NaN)
               ELSE IF call.kind = "getActive"
                    THEN callback(@, "", Num(IF IsNum(speed) /\ speed.n > 0
                                             THEN 1 ELSE 0))
               ELSE callback(@, "", Undefined)]
        /\ micro' = Tail(micro)
        /\ UNCHANGED <<socketVars, settles, cacheVars>>

\* ------------------------------------------------------------ the device
\* The fan, when no fault is injected: it applies a command as it arrives and
\* answers the status query 's' with its speed as the first field.
deviceReceives(msg) ==
    IF msg = <<"s">>
    THEN /\ inflight' = Append(inflight, ToStr(devSpeed) \o <<",", "0">>)
         /\ devSpeed' = devSpeed
    ELSE /\ inflight' = inflight
         /\ LET n == parseInt(SubSeq(msg, 3, Len(msg))).n
            IN  IF Head(msg) = "s" THEN devSpeed' = n
                ELSE IF n = 0 THEN devSpeed' = 0
                ELSE IF devSpeed > 0 THEN devSpeed' = devSpeed
                ELSE devSpeed' \in 1..3

\* ------------------------------------------------------------ the events
\* the microtask at the head of the queue runs
Resume ==
    /\ micro # <<>>
    /\ LET c == Head(micro)
       IN  IF impl = "retry"
           THEN \/ getSpeedResumed(c)
                \/ getActiveResumed(c)
                \/ sendCommandWithConfirmation(c)
                \/ setSpeedResumed(c)
                \/ setActiveResumed(c)
           ELSE idx_then(c)
    /\ hostTurn' = (micro' # <<>> /\ calls'[Head(micro)].cb # calls[Head(micro)].cb)
    /\ Frame

\* socket.send calls back without an error; the datagram is on its way
SendAccepted ==
    /\ env = "ideal" /\ micro = <<>> /\ sendq # <<>>
    /\ sendq' = Tail(sendq)
    /\ deviceReceives(Message(calls[Head(sendq).c], Head(sendq).r))
    /\ UNCHANGED <<impl, env, now, cacheVars, calls, micro, timeouts, retries,
                   settles, listeners, faults, hostTurn>>

\* socket.send calls back with an error
SendFailed ==
    /\ env = "faulty" /\ micro = <<>> /\ sendq # <<>>
    /\ sendq' = Tail(sendq)
    /\ IF impl = "retry" THEN sendError(Head(sendq)) ELSE idx_sendError(Head(sendq))
    /\ UNCHANGED <<impl, env, now, cacheVars, settles, deviceVars, faults,
                   hostTurn>>

\* no reply came before the deadline of an attempt
ResponseTimeout ==
    /\ env = "faulty" /\ faults < MaxFaults /\ micro = <<>>
    /\ faults' = faults + 1
    /\ \E id \in timeouts :
          IF impl = "retry" THEN responseTimeout(id) ELSE idx_responseTimeout(id)
    /\ UNCHANGED <<impl, env, now, cacheVars, sendq, settles, deviceVars,
                   hostTurn>>

RetryTimer ==
    /\ micro = <<>>
    /\ \E id \in retries : retry(id)
    /\ UNCHANGED <<impl, env, now, cacheVars, settles, deviceVars, hostTurn>>

SettleTimer ==
    /\ \E c \in settles : confirmationQuery(c)

\* the calls whose awaited promise the listeners settle, in listener order
RECURSIVE Woken(_, _)
Woken(ls, seen) ==
    IF ls = <<>> THEN <<>>
    ELSE LET c == Head(ls).c
         IN  IF c \in seen \/ calls[c].d[Head(ls).r].st # "pending"
             THEN Woken(Tail(ls), seen)
             ELSE <<c>> \o Woken(Tail(ls), seen \cup {c})

\* a socket that hands a datagram to the oldest listener only
emit_oldestOnly(msg) ==
    IF listeners = <<>>
    THEN UNCHANGED <<calls, timeouts, listeners, micro>>
    ELSE LET id == Head(listeners)
             d == calls[id.c].d[id.r]
             after == IF impl = "retry" THEN handleMessage(d, msg)
                      ELSE idx_handleMessage(d, msg)
         IN  /\ calls' = [calls EXCEPT ![id.c].d[id.r] = after]
             /\ timeouts' = timeouts \ {id}
             /\ listeners' = Tail(listeners)
             /\ micro' = wake(id.c, d, after)

\* socket emits 'message': every registered listener runs, in order.  Each
\* handler clears its timer and leaves the listener list (removeListener in
\* part_000, socket.once in index.js).
emit(msg) ==
    /\ calls' = [c \in DOMAIN calls |->
          [calls[c] EXCEPT !.d = [r \in Roles |->
              IF Attempt(c, r, <<>>).r \in {id.r : id \in {x \in Range(listeners) : x.c = c}}
              THEN IF impl = "retry" THEN handleMessage(@[r], msg)
                   ELSE idx_handleMessage(@[r], msg)
              ELSE @[r]]]]
    /\ timeouts' = timeouts \ Range(listeners)
    /\ listeners' = <<>>
    /\ micro' = micro \o Woken(listeners, {})

\* the device's reply arrives
DeviceReply ==
    /\ env = "ideal" /\ micro = <<>> /\ inflight # <<>>
    /\ emit(Head(inflight))
    /\ inflight' = Tail(inflight)
    /\ UNCHANGED <<impl, env, now, cacheVars, sendq, retries, settles, devSpeed,
                   faults, hostTurn>>

\* any datagram arrives (with no listener the event changes nothing)
Datagram ==
    /\ env = "faulty" /\ micro = <<>> /\ listeners # <<>>
    /\ \E msg \in Replies : emit(msg)
    /\ UNCHANGED <<impl, env, now, cacheVars, sendq, retries, settles, deviceVars,
                   faults, hostTurn>>

\* Time passes.  The program reads the clock in isCacheValid and updateCache
\* only, so time that passes while the cache is stale already shows nowhere.
Tick ==
    /\ micro = <<>> /\ now < StartTime + MaxTicks * TickMs
    /\ now - lastUpdate < CacheTimeout
    /\ now' = now + TickMs
    /\ UNCHANGED <<impl, env, cacheVars, calls, micro, sendq, timeouts, retries,
                   settles, listeners, deviceVars, faults, hostTurn>>

\* the host calls one of the four operations; while microtasks wait it may
\* call again before it returns
HostCall ==
    /\ \/ getSpeed
       \/ getActive
       \/ \E value \in Percentages : setSpeed(value)
       \/ \E value \in {0, 1} : setActive(value)
       \/ idx_getSpeed
       \/ idx_getActive
       \/ \E value \in Percentages : idx_setSpeed(value)
       \/ \E value \in {0, 1} : idx_setActive(value)
    /\ hostTurn' = (micro' # <<>>)

Next ==
    \/ HostCall
    \/ Resume
    \/ SendAccepted
    \/ SendFailed
    \/ ResponseTimeout
    \/ RetryTimer
    \/ SettleTimer
    \/ DeviceReply
    \/ Datagram
    \/ Tick

Spec == Init /\ [][Next]_vars

\* an event of the event loop other than a call of the host and the passing of
\* time: a microtask, a callback of socket.send, a timer, a datagram
Event ==
    \/ Resume
    \/ SendAccepted
    \/ SendFailed
    \/ ResponseTimeout
    \/ RetryTimer
    \/ SettleTimer
    \/ DeviceReply
    \/ Datagram

\* What the event loop and the transport guarantee: while a microtask is
\* queued, a socket.send has not called back, a timer is armed or a reply is
\* on its way, one of these events happens.
FairSpec == Spec /\ WF_vars(Event)

\* ------------------------------------------------------------ properties
Reads == {"getSpeed", "getActive"}
Writes == {"setSpeed", "setActive"}

\* call c completes in this step
Completes(c) == calls[c].pc # "done" /\ calls'[c].pc = "done"

\* a send of this dispatch is queued whose callback will report an error
FailingSendQueued(c, r) ==
    env = "faulty" /\ \E id \in Range(sendq) : id.c = c /\ id.r = r

\* the armed timers of a dispatch: response timers and retryDelay timers
ArmedTimers(c, r) == {id \in timeouts : id.c = c /\ id.r = r}
ArmedRetries(c, r) == {id \in retries : id.c = c /\ id.r = r}

\* the value a read serves from the cache
Cached(kind) ==
    IF kind = "getSpeed" THEN Num(cachedSpeed.n * Step) ELSE cachedActive

\* C1: for each of the four operations, in both implementations and for every
\* sequence of transport events, the callback of a call is invoked exactly
\* once: it is never invoked a second time, and every call the host makes
\* leads to its callback being invoked.
C1_CallbackExactlyOnce ==
    /\ [](\A c \in DOMAIN calls : calls[c].cb <= 1)
    /\ \A c \in 1..MaxCalls :
          (Len(calls) >= c) ~> (Len(calls) >= c /\ calls[c].cb = 1)

\* a call completed after a retry of its status query and a datagram
C1_Witness ==
    \E c \in DOMAIN calls :
        /\ calls[c].cb = 1
        /\ calls[c].d["query"].sends > 1
        /\ calls[c].d["query"].heard

\* C2: a status-query dispatch of the retrying implementation whose sends are
\* all accepted and that hears no datagram has one attempt at a time, attempt
\* n+1 being sent only after the deadline of attempt n and the retryDelay
\* timer; it makes at most maxRetries+1 sends, never succeeds, and when it has
\* failed it has made exactly maxRetries+1 sends and failed with the timeout
\* error.
C2_TimeoutsExhaustRetries ==
    \A c \in DOMAIN calls :
        LET d == calls[c].d["query"]
            T == ArmedTimers(c, "query")
            R == ArmedRetries(c, "query")
        IN  ( /\ impl = "retry" /\ d.st # "none"
              /\ d.fails = 0 /\ ~FailingSendQueued(c, "query") /\ ~d.heard )
            => /\ d.sends <= MaxRetries + 1
               /\ d.st # "ok"
               /\ d.st = "pending" => Cardinality(T \cup R) = 1
               /\ d.st = "err" =>
                     /\ T \cup R = {}
                     /\ d.sends = MaxRetries + 1
                     /\ d.e = "Timeout waiting for response after retries"
               /\ \A id \in T : retryCount(id) = d.sends - 1
               /\ \A id \in R : retryCount(id) = d.sends
               /\ \A id \in T \cup R : \A i \in 1..Len(id.p) : id.p[i] = "t"

\* a status query failed after maxRetries+1 accepted sends and no datagram
C2_Witness ==
    \E c \in DOMAIN calls :
        LET d == calls[c].d["query"]
        IN  /\ impl = "retry" /\ d.st = "err"
            /\ d.fails = 0 /\ ~d.heard
            /\ d.sends = MaxRetries + 1
            /\ calls[c].cb = 1

\* C3: a write whose command had every one of its maxRetries+1 sends fail
\* reports an error to its callback, never a success.
C3_WritesPropagateErrors ==
    \A c \in DOMAIN calls :
        ( /\ impl = "retry" /\ calls[c].kind \in Writes
          /\ calls[c].d["cmd"].fails = MaxRetries + 1
          /\ calls[c].cb = 1 )
        => calls[c].err # ""

\* C4: when setSpeed completes with success, the cached speed is the value its
\* confirmation query read back.
C4_CacheHoldsConfirmedSpeed ==
    [][\A c \in DOMAIN calls :
          ( /\ impl = "retry" /\ calls[c].kind = "setSpeed"
            /\ Completes(c) /\ calls'[c].err = "" )
          => cachedSpeed' = calls'[c].d["query"].val]_vars

\* C5: a getSpeed or getActive made while the cache holds an entry younger
\* than cacheTimeout completes in the call itself with the cached value (the
\* cached speed times 33.33, the cached flag), sends no datagram and registers
\* no listener or timer.
C5_FreshCacheNoTraffic ==
    [][( /\ impl = "retry" /\ Len(calls') = Len(calls) + 1
         /\ calls'[Len(calls')].kind \in Reads
         /\ cachedSpeed # Null /\ now - lastUpdate < CacheTimeout )
       => LET call == calls'[Len(calls')]
          IN  /\ call.cb = 1 /\ call.err = ""
              /\ call.val = Cached(call.kind)
              /\ \A r \in Roles : call.d[r].st = "none" /\ call.d[r].sends = 0
              /\ UNCHANGED <<sendq, listeners, timeouts, retries, cacheVars>>]_vars

\* a read was served from a cache written by an earlier call
C5_Witness ==
    \E c \in DOMAIN calls :
        /\ impl = "retry" /\ calls[c].kind \in Reads /\ c > 1
        /\ calls[c].cb = 1 /\ calls[c].val # Undefined
        /\ calls[c].d["query"].st = "none"

\* C6: a getSpeed or getActive that completes after its live query reports an
\* error exactly when the query failed and the cache was never written, and
\* then the error is the query's; when the query failed and a cache entry
\* exists, however old, the read returns the cached value with no error; a
\* failed query leaves the cache as it was.
C6_StaleFallback ==
    [][\A c \in DOMAIN calls :
          ( /\ impl = "retry" /\ calls[c].kind \in Reads
            /\ calls[c].pc = "await_query" /\ Completes(c) )
          => LET d == calls[c].d["query"]
             IN  /\ calls'[c].err # "" <=> (d.st = "err" /\ cachedSpeed = Null)
                 /\ calls'[c].err # "" => calls'[c].err = d.e
                 /\ (d.st = "err" /\ cachedSpeed # Null)
                       => calls'[c].val = Cached(calls[c].kind)
                 /\ d.st = "err" => UNCHANGED cacheVars]_vars

\* a read whose live query failed returned an entry older than cacheTimeout
C6_Witness ==
    \E c \in DOMAIN calls :
        /\ impl = "retry" /\ calls[c].kind \in Reads
        /\ calls[c].cb = 1 /\ calls[c].err = ""
        /\ calls[c].d["query"].st = "err"
        /\ calls[c].val = Cached(calls[c].kind)
        /\ now - lastUpdate >= CacheTimeout

\* the call that is alone: the latest call, made when every earlier call had
\* completed, so that nothing else is in progress
Alone(c) == c = Len(calls) /\ calls[c].solo

\* C7: in every state the cached flag is the function of the cached speed:
\* both are absent together, and the flag is 1 exactly when the speed is above
\* 0; a getActive that ran alone and succeeded returned 1 exactly when the
\* last known speed is above 0.
C7_ActiveFollowsSpeed ==
    /\ cachedSpeed = Null <=> cachedActive = Null
    /\ cachedSpeed # Null =>
          /\ IsNum(cachedSpeed)
          /\ cachedActive = Num(IF cachedSpeed.n > 0 THEN 1 ELSE 0)
    /\ \A c \in DOMAIN calls :
          ( /\ impl = "retry" /\ calls[c].kind = "getActive" /\ Alone(c)
            /\ calls[c].cb = 1 /\ calls[c].err = "" )
          => /\ cachedSpeed # Null
             /\ calls[c].val = Num(IF cachedSpeed.n > 0 THEN 1 ELSE 0)

\* a getActive returned 1 from a live query that read a speed above 0
C7_Witness ==
    \E c \in DOMAIN calls :
        /\ impl = "retry" /\ calls[c].kind = "getActive" /\ Alone(c)
        /\ calls[c].cb = 1 /\ calls[c].val = Num(1)
        /\ calls[c].d["query"].st = "ok"
        /\ cachedSpeed = Num(2) /\ cachedActive = Num(1)

\* C8: in sendCommandWithConfirmation the command is sent again only when the
\* confirmation query read a value different from the intended one; when the
\* operation has returned, it returned the value the query read, the command
\* was sent again if and only if that value differs from the intended one,
\* and the resend was dispatched once: it makes one send unless a send fails,
\* and when no fault is injected the call makes one command, one status query
\* and at most one resend.
C8_SingleCorrectiveResend ==
    \A c \in DOMAIN calls :
        LET speed == Num(RoundSpeed(calls[c].arg))
            q == calls[c].d["query"]
            f == calls[c].d["fix"]
        IN  (impl = "retry" /\ calls[c].kind = "setSpeed")
            => /\ f.st # "none" => (q.st = "ok" /\ q.val # speed /\ f.st = "ok")
               /\ f.sends <= 1 + f.fails
               /\ (f.st # "none" /\ ~FailingSendQueued(c, "fix") /\ f.fails = 0)
                     => f.sends = 1
               /\ env = "ideal" =>
                     \A r \in Roles : calls[c].d[r].sends <= 1
               /\ calls[c].ret # Undefined =>
                     /\ calls[c].pc \in {"returned", "done"} /\ calls[c].err = ""
                     /\ calls[c].ret = q.val
                     /\ q.val # speed <=> f.st = "ok"
                     /\ q.val = speed <=> f.st = "none"

\* a setSpeed returned a value read back that differs from the intended one,
\* after one resend
C8_Witness ==
    \E c \in DOMAIN calls :
        /\ impl = "retry" /\ calls[c].kind = "setSpeed"
        /\ calls[c].ret # Undefined
        /\ calls[c].ret # Num(RoundSpeed(calls[c].arg))
        /\ calls[c].d["fix"].sends = 1
        /\ calls[c].d["query"].sends = 1

\* C9: setActive sends its status query only for power-on and only after the
\* command; when setActive(0) completes with success no status query was sent
\* and the cached speed is 0; when setActive(1) completes with success its
\* status query was sent and answered and the cached speed is the speed the
\* reply reported.
C9_SetActiveCaching ==
    [][\A c \in DOMAIN calls :
          LET q == calls[c].d["query"]
          IN  (impl = "retry" /\ calls[c].kind = "setActive")
              => /\ (q.st = "none" /\ calls'[c].d["query"].st # "none")
                       => /\ calls[c].arg = 1
                          /\ calls[c].d["cmd"].sends >= 1
                          /\ calls[c].d["cmd"].st = "ok"
                 /\ (Completes(c) /\ calls'[c].err = "")
                       => IF calls[c].arg = 0
                          THEN /\ q.st = "none" /\ q.sends = 0
                               /\ cachedSpeed' = Num(0)
                          ELSE /\ q.st = "ok" /\ q.sends >= 1
                               /\ cachedSpeed' = q.val]_vars

\* a setActive(1) succeeded on a fan that reported speed 2, and 2 is cached
C9_Witness ==
    \E c \in DOMAIN calls :
        /\ impl = "retry" /\ calls[c].kind = "setActive" /\ calls[c].arg = 1
        /\ Alone(c) /\ calls[c].cb = 1 /\ calls[c].err = ""
        /\ calls[c].d["query"].val = Num(2)
        /\ cachedSpeed = Num(2)

\* C10: with no fault injected, in both implementations, for every speed n in
\* 0..3: a getSpeed that follows a successful setSpeed(n * 33.33), each made
\* when no other call was in progress, returns a percentage within one unit
\* of n * 33.33.
C10_RoundTrip ==
    \A c \in DOMAIN calls : \A n \in 0..3 :
        ( /\ env = "ideal" /\ c >= 2 /\ Alone(c)
          /\ calls[c].kind = "getSpeed" /\ calls[c].cb = 1
          /\ calls[c - 1].kind = "setSpeed" /\ calls[c - 1].solo
          /\ calls[c - 1].arg = n * Step /\ calls[c - 1].err = "" )
        => /\ calls[c].err = ""
           /\ IsNum(calls[c].val)
           /\ calls[c].val.n - n * Step <= 100
           /\ n * Step - calls[c].val.n <= 100

\* setSpeed(99.99) then a getSpeed that had to ask the fan returned 99.99
C10_Witness ==
    \E c \in DOMAIN calls :
        /\ env = "ideal" /\ c >= 2 /\ Alone(c)
        /\ calls[c].kind = "getSpeed" /\ calls[c].cb = 1
        /\ calls[c - 1].kind = "setSpeed" /\ calls[c - 1].solo
        /\ calls[c - 1].arg = 3 * Step /\ calls[c - 1].err = ""
        /\ calls[c].d["query"].heard
        /\ calls[c].val = Num(3 * Step)

\* C11: the result of a status query is decided by the first field of the
\* reply only: when the field is an integer n the query yields n, whatever
\* follows the comma; when it is not an integer the query fails with the
\* invalid-response error and yields no result.
C11_FirstFieldDecides ==
    \A c \in DOMAIN calls :
        LET d == calls[c].d["query"]
        IN  d.field # Undefined
            => IF IsNum(d.field)
               THEN d.st = "ok" /\ d.val = d.field
               ELSE d.st = "err" /\ d.e = "Invalid response from device"

\* C12: in every state the cached speed, when present, is one of 0, 1, 2, 3,
\* whatever integer the device puts in a status reply.
C12_CachedSpeedInRange ==
    cachedSpeed # Null => (IsNum(cachedSpeed) /\ cachedSpeed.n \in 0..3)

\* the sends of a dispatch whose callback has not run yet
QueuedSends(c, r) == {id \in Range(sendq) : id.c = c /\ id.r = r}

\* the sends of a dispatch that the transport has accepted
AcceptedSends(c, r) ==
    calls[c].d[r].sends - calls[c].d[r].fails - Cardinality(QueuedSends(c, r))

\* C13: a dispatch of the retrying implementation that expects no response
\* reports success only once one of its sends has been accepted; a dispatch
\* whose every send failed, with nothing of it left to run, made exactly
\* maxRetries+1 sends and failed with the send error.
C13_SendExhaustion ==
    \A c \in DOMAIN calls : \A r \in Roles :
        LET d == calls[c].d[r]
        IN  (impl = "retry" /\ d.st # "none")
            => /\ (~expectResponse(r) /\ d.st = "ok") => AcceptedSends(c, r) >= 1
               /\ ( /\ d.fails = d.sends
                    /\ ArmedRetries(c, r) = {} /\ ArmedTimers(c, r) = {} )
                     => /\ d.sends = MaxRetries + 1
                        /\ d.st = "err" /\ d.e = "send error"

\* C14: an unparseable reply is never retried: once a status query of the
\* retrying implementation has failed with the invalid-response error, it
\* makes no further send.
C14_InvalidReplyNotRetried ==
    [][\A c \in DOMAIN calls :
          LET d == calls[c].d["query"]
          IN  ( /\ impl = "retry"
                /\ d.st = "err" /\ d.e = "Invalid response from device"
                /\ calls'[c].d["query"].st = "err" )
              => calls'[c].d["query"].sends = d.sends]_vars

\* the listeners a dispatch has registered on the socket
Subscribed(c, r) == {id \in Range(listeners) : id.c = c /\ id.r = r}

\* C15: both cleanup paths always run: the listener of an attempt is
\* registered exactly while its response timer is armed; and when a dispatch
\* has delivered its result, success or error, none of its listeners is
\* registered and none of its response timers is armed.
C15_CleanupOnBothPaths ==
    /\ \A id \in timeouts \cup Range(listeners) :
          id \in timeouts /\ id \in Range(listeners)
    /\ \A c \in DOMAIN calls : \A r \in Roles :
          calls[c].d[r].st \in {"ok", "err"}
          => (Subscribed(c, r) = {} /\ ArmedTimers(c, r) = {})

\* C16: at every moment an outstanding dispatch has at most one listener
\* registered on the socket, across all its attempts.
C16_OneListenerPerDispatch ==
    \A c \in DOMAIN calls : \A r \in Roles :
        (impl = "retry" /\ calls[c].d[r].st = "pending")
        => Cardinality(Subscribed(c, r)) <= 1

\* C19: under any combination of send failures and response timeouts a
\* dispatch of the retrying implementation makes at most maxRetries+1 sends
\* in total, and makes no send after it has delivered its result.
C19_BoundedSends ==
    [][\A c \in DOMAIN calls : \A r \in Roles :
          LET d == calls[c].d[r]
              after == calls'[c].d[r]
          IN  impl = "retry"
              => /\ after.sends <= MaxRetries + 1
                 /\ (d.st \in {"ok", "err"} /\ after.st = d.st)
                       => after.sends = d.sends]_vars

\* C17: in sendCommandWithConfirmation the steps are ordered: once the
\* confirmation status query has been dispatched, the command of the first
\* step is not sent or resent any more; only the corrective resend may follow.
C17_CommandBeforeQuery ==
    [][\A c \in DOMAIN calls :
          ( /\ impl = "retry" /\ calls[c].kind = "setSpeed"
            /\ calls[c].d["query"].st # "none"
            /\ calls'[c].d["query"].st # "none" )
          => calls'[c].d["cmd"].sends = calls[c].d["cmd"].sends]_vars

\* C18: nothing correlates a datagram with the query that elicited it: when
\* a reply of the device arrives, every dispatch with a listener registered
\* takes it, so every such dispatch that was pending is settled by this one
\* datagram, and a success carries the datagram's value.
C18_NoCorrelation ==
    [][(env = "ideal" /\ inflight # <<>> /\ inflight' = Tail(inflight))
       => \A id \in Range(listeners) :
             LET d == calls[id.c].d[id.r]
                 after == calls'[id.c].d[id.r]
             IN  d.st = "pending"
                 => /\ after.st # "pending" /\ after.heard
                    /\ after.st = "ok"
                          => after.val = parseInt(FirstField(Head(inflight)))
                    /\ id \notin Range(listeners')]_vars

\* the cross-talk: two status queries are outstanding, and one has completed
\* with the reply to the other while its own query has not left yet
C18_Witness ==
    \E id \in Range(sendq) : \E c \in DOMAIN calls :
        /\ env = "ideal" /\ id.r = "query" /\ c # id.c
        /\ calls[id.c].d["query"].st = "ok" /\ calls[id.c].d["query"].heard
        /\ calls[c].d["query"].st = "ok" /\ calls[c].d["query"].heard
        /\ calls[id.c].d["query"].val = calls[c].d["query"].val

\* nothing is left to run: no microtask, send callback, timer, listener or
\* reply on its way, and every call has completed
Quiescent ==
    /\ micro = <<>> /\ sendq = <<>> /\ inflight = <<>>
    /\ timeouts = {} /\ retries = {} /\ settles = {} /\ listeners = <<>>
    /\ \A c \in DOMAIN calls : calls[c].pc = "done"

\* C20: when a read and a write of the accessory overlap, with no fault
\* injected, the cache is not left holding an older device state: once both
\* have completed and nothing is left to run, the cached speed is the speed
\* of the device.
C20_NoStaleOverwrite ==
    ( /\ impl = "retry" /\ env = "ideal" /\ Len(calls) = 2 /\ Quiescent
      /\ {calls[1].kind, calls[2].kind} \cap Reads # {}
      /\ {calls[1].kind, calls[2].kind} \cap Writes # {}
      /\ cachedSpeed # Null )
    => cachedSpeed = Num(devSpeed)

====
